---- MODULE Spec2Model ----
(***************************************************************************)
(* Model of towebp_english.py: the WebPConverterApp widget, its handlers   *)
(* and the ConversionThread worker.                                        *)
(*                                                                         *)
(* Texts of line edits are sequences of one-character strings, so that     *)
(* str.strip(), str.endswith() and int() are computed, not assumed.        *)
(***************************************************************************)
EXTENDS Integers, Sequences, FiniteSets, TLC

(* ------------------------------------------------------------------ *)
(* Bounds of the model                                                 *)
(* ------------------------------------------------------------------ *)

\* Number of ConversionThread objects convert_images may create in a run in
\* which the user also edits the line edits.
MaxConversions == 1

\* Number of ConversionThread objects convert_images may create in a run in
\* which the line edits keep their texts.
MaxThreads == 2

\* Largest number of *.png files in the folder "frames".
MaxFiles == 3

(* ------------------------------------------------------------------ *)
(* Texts                                                               *)
(* ------------------------------------------------------------------ *)

WebpDefault == <<"o", "u", "t", "p", "u", "t", ".", "w", "e", "b", "p">>
PngDefault == <<"o", "u", "t", "p", "u", "t", ".", "p", "n", "g">>
PaddedWebp == <<" ", "a", ".", "w", "e", "b", "p", " ">>

ExtWebp == <<".", "w", "e", "b", "p">>
ExtPng == <<".", "p", "n", "g">>

\* What the user may type into the output file name entry.
OutputTexts == {WebpDefault, PngDefault, PaddedWebp}

DelayDefault == <<"2", "4">>
\* What the user may type into the frame rate entry.
DelayTexts == {DelayDefault, <<"0">>, <<"-", "3">>, <<"x">>}

QualityDefault == <<"9", "0">>
\* What the user may type into the quality entry.
QualityTexts == {QualityDefault, <<"1", "0", "0">>, <<"1", "0", "1">>, <<"-", "1">>,
                 <<"q">>}

Whitespace == {" "}
Digits == {"0", "1", "2", "3", "4", "5", "6", "7", "8", "9"}

DigitValue(c) ==
    CASE c = "0" -> 0 [] c = "1" -> 1 [] c = "2" -> 2 [] c = "3" -> 3
      [] c = "4" -> 4 [] c = "5" -> 5 [] c = "6" -> 6 [] c = "7" -> 7
      [] c = "8" -> 8 [] c = "9" -> 9

\* str.lstrip() / str.rstrip() / str.strip()
RECURSIVE lstrip(_)
lstrip(s) ==
    IF s # <<>> /\ Head(s) \in Whitespace THEN lstrip(Tail(s)) ELSE s

RECURSIVE rstrip(_)
rstrip(s) ==
    IF s # <<>> /\ s[Len(s)] \in Whitespace
    THEN rstrip(SubSeq(s, 1, Len(s) - 1))
    ELSE s

strip(s) == rstrip(lstrip(s))

\* str.endswith(suffix)
endswith(s, suffix) ==
    /\ Len(s) >= Len(suffix)
    /\ SubSeq(s, Len(s) - Len(suffix) + 1, Len(s)) = suffix

\* Value of a non-empty sequence of decimal digits.
RECURSIVE DigitsValue(_)
DigitsValue(s) ==
    IF s = <<>> THEN 0
    ELSE 10 * DigitsValue(SubSeq(s, 1, Len(s) - 1)) + DigitValue(s[Len(s)])

\* int(text): surrounding whitespace is ignored, an optional sign, then one or
\* more decimal digits; anything else raises ValueError (ok = FALSE).
int(text) ==
    LET t == strip(text)
        signed == t # <<>> /\ Head(t) \in {"-", "+"}
        body == IF signed THEN Tail(t) ELSE t
        ok == body # <<>> /\ \A i \in 1..Len(body) : body[i] \in Digits
        magnitude == IF ok THEN DigitsValue(body) ELSE 0
    IN  [ok |-> ok,
         value |-> IF signed /\ Head(t) = "-" THEN 0 - magnitude ELSE magnitude]

(* ------------------------------------------------------------------ *)
(* The file system and the imaging libraries                           *)
(* ------------------------------------------------------------------ *)

None == "None"

\* Directories the user can select or drop, and a path that is no directory.
Folders == {"empty", "frames"}
PlainFile == "file"
Paths == Folders \cup {PlainFile}

\* Names of *.png files, as texts.  Every path glob returns for one folder
\* starts with the same os.path.join(input_folder, ...) prefix, so paths of
\* one folder compare as their file names do.
Png1 == <<"1", ".", "p", "n", "g">>
Png10 == <<"1", "0", ".", "p", "n", "g">>
Png2 == <<"2", ".", "p", "n", "g">>
PngB == <<"b", ".", "p", "n", "g">>
FileNames == {Png1, Png10, Png2, PngB}

\* The lists of length n over FileNames without a repeated name: what a
\* directory of n files can list, in any order.
RECURSIVE ListingsOfLen(_)
ListingsOfLen(n) ==
    IF n = 0 THEN {<<>>}
    ELSE UNION {{Append(l, f) : f \in FileNames \ {l[k] : k \in 1..Len(l)}} :
                   l \in ListingsOfLen(n - 1)}

Listings == UNION {ListingsOfLen(n) : n \in 0..MaxFiles}

\* The listing of "frames" in the runs about the widgets and the worker.
DefaultFiles == <<Png2, Png1>>

\* ord() of the characters of FileNames.
ord(c) ==
    CASE c = "." -> 46
      [] c \in Digits -> 48 + DigitValue(c)
      [] c = "b" -> 98
      [] c = "g" -> 103
      [] c = "n" -> 110
      [] c = "p" -> 112

\* a < b for str: the first differing character decides, a proper prefix is
\* smaller.
RECURSIVE str_lt(_, _)
str_lt(a, b) ==
    IF b = <<>> THEN FALSE
    ELSE IF a = <<>> THEN TRUE
    ELSE IF Head(a) # Head(b) THEN ord(Head(a)) < ord(Head(b))
    ELSE str_lt(Tail(a), Tail(b))

\* list.insert of x before the first element greater than x.
RECURSIVE insort(_, _)
insort(l, x) ==
    IF l = <<>> THEN <<x>>
    ELSE IF str_lt(x, Head(l)) THEN <<x>> \o l
    ELSE <<Head(l)>> \o insort(Tail(l), x)

\* png_files without sorted(): the order glob returns.
sorted_AsListed(l) == l

\* sorted(l): ascending, stable.
RECURSIVE sorted(_)
sorted(l) ==
    IF l = <<>> THEN <<>>
    ELSE insort(sorted(SubSeq(l, 1, Len(l) - 1)), l[Len(l)])

\* The *.png files of the folder "frames", in the order the directory lists
\* them; no file is added or removed while the program runs.
VARIABLE files

\* glob.glob(os.path.join(input_folder, "*.png")): in directory order.
glob(input_folder) ==
    IF input_folder = "frames" THEN files ELSE <<>>

\* os.path.isdir(path)
isdir(path) == path \in Folders

NoCall == [lib |-> "none"]

\* create_webp: the outcome of one call.  `returns` says whether the PIL calls
\* (Image.open, Image.save) return or raise.
\* `base` is images[0], the image save() is called on.
create_webp(output_file, input_folder, delay, quality, lossless, returns) ==
    LET png_files == sorted(glob(input_folder))
    IN  IF png_files = <<>>
        THEN [raised |-> TRUE, error |-> "No PNG files found", call |-> NoCall]
        ELSE IF ~returns
        THEN [raised |-> TRUE, error |-> "library error", call |-> NoCall]
        ELSE [raised |-> FALSE, error |-> "",
              call |-> IF ~lossless
                       THEN [lib |-> "PIL", file |-> output_file,
                             base |-> png_files[1],
                             append_images |-> Tail(png_files),
                             duration |-> delay,
                             lossless |-> lossless, quality |-> quality]
                       ELSE [lib |-> "PIL", file |-> output_file,
                             base |-> png_files[1],
                             append_images |-> Tail(png_files),
                             duration |-> delay,
                             lossless |-> lossless]]

\* create_apng without `if not png_files`.
create_apng_Unchecked(output_file, input_folder, delay, returns) ==
    LET png_files == sorted(glob(input_folder))
    IN  IF ~returns
        THEN [raised |-> TRUE, error |-> "library error", call |-> NoCall]
        ELSE [raised |-> FALSE, error |-> "",
              call |-> [lib |-> "apng", file |-> output_file,
                        frames |-> png_files, delay |-> delay \div 10]]

\* create_apng: the outcome of one call.  `frames` are the files given to
\* append_file, in the order of the calls.
create_apng(output_file, input_folder, delay, returns) ==
    LET png_files == sorted(glob(input_folder))
    IN  IF png_files = <<>>
        THEN [raised |-> TRUE, error |-> "No PNG files found", call |-> NoCall]
        ELSE IF ~returns
        THEN [raised |-> TRUE, error |-> "library error", call |-> NoCall]
        ELSE [raised |-> FALSE, error |-> "",
              call |-> [lib |-> "apng", file |-> output_file,
                        frames |-> png_files, delay |-> delay \div 10]]

(* ------------------------------------------------------------------ *)
(* State                                                               *)
(* ------------------------------------------------------------------ *)

VARIABLES
    input_folder,         \* WebPConverterApp.input_folder: None or a folder
    format,               \* text of format_button_group.checkedButton()
    compression,          \* text of compression_button_group.checkedButton()
    compression_section,  \* compression_section is shown
    quality_frame,        \* quality_frame is shown
    output_entry,         \* text of output_entry
    delay_entry,          \* text of delay_entry
    quality_entry,        \* text of quality_entry
    toast,                \* WebPConverterApp.toast
    thread,               \* WebPConverterApp.thread: index into threads, 0 = unset
    threads,              \* every ConversionThread created so far
    crashed,              \* the process was aborted by Qt
    edited,               \* the user typed a file name after the last format toggle
    limit                 \* how many ConversionThread objects the run may create

vars == <<input_folder, format, compression, compression_section, quality_frame,
          output_entry, delay_entry, quality_entry, toast, thread, threads,
          crashed, edited, limit, files>>

widgets == <<format, compression, compression_section, quality_frame>>
entries == <<output_entry, delay_entry, quality_entry>>
worker == <<thread, threads, crashed, limit, files>>

NoToast == [type |-> "none", message |-> "", detail |-> <<>>, duration |-> 0,
            visible |-> FALSE]

\* show_toast: the previous toast is hidden and replaced by a new, shown one.
show_toast(message, detail, duration, toast_type) ==
    [type |-> toast_type, message |-> message, detail |-> detail,
     duration |-> duration, visible |-> TRUE]

ToastDuration == 3000

\* The widget after WebPConverterApp.__init__, which ends with toggle_format().
Constructed ==
    /\ input_folder = None
    /\ format = "WebP"
    /\ compression = "Lossy Mode"
    /\ compression_section = TRUE
    /\ quality_frame = TRUE
    /\ output_entry = WebpDefault
    /\ delay_entry = DelayDefault
    /\ quality_entry = QualityDefault
    /\ toast = NoToast
    /\ thread = 0
    /\ threads = <<>>
    /\ crashed = FALSE
    /\ edited = FALSE

Init == Constructed /\ limit = MaxConversions /\ files = DefaultFiles

InitWorker == Constructed /\ limit = MaxThreads /\ files = DefaultFiles

\* The widget after construction, with any listing of the folder "frames".
InitFrames == Constructed /\ limit = MaxConversions /\ files \in Listings

(* ------------------------------------------------------------------ *)
(* Folder selection                                                    *)
(* ------------------------------------------------------------------ *)

\* select_folder: the dialog returns a folder, or "" when it is cancelled.
select_folder(folder_selected) ==
    /\ ~crashed
    /\ input_folder' = IF folder_selected # "" THEN folder_selected ELSE input_folder
    /\ UNCHANGED <<widgets, entries, toast, worker, edited>>

SelectFolder == \E folder_selected \in Folders \cup {""} : select_folder(folder_selected)

\* dropEvent: only the first url is looked at; a path that is no directory
\* gets a message box and changes nothing.
dropEvent(urls) ==
    /\ ~crashed
    /\ input_folder' = IF urls # <<>> /\ isdir(Head(urls)) THEN Head(urls)
                       ELSE input_folder
    /\ UNCHANGED <<widgets, entries, toast, worker, edited>>

\* The url lists a drop may carry.
DropUrls == {<<>>, <<PlainFile>>, <<"empty">>, <<"frames">>,
             <<PlainFile, "frames">>, <<"frames", "empty">>}

DropEvent == \E urls \in DropUrls : dropEvent(urls)

\* clear_folder
ClearFolder ==
    /\ ~crashed
    /\ input_folder' = None
    /\ UNCHANGED <<widgets, entries, toast, worker, edited>>

(* ------------------------------------------------------------------ *)
(* Radio buttons                                                       *)
(* ------------------------------------------------------------------ *)

\* DefaultName with "output.webp" in both branches.
DefaultName_AlwaysWebp(checked) == WebpDefault

\* Default file name toggle_format writes for the checked format button.
DefaultName(checked) == IF checked = "WebP" THEN WebpDefault ELSE PngDefault

\* quality_frame after toggle_format.
FormatShowsQuality(checked) == checked = "WebP"

\* FormatShowsCompression without compression_section.hide().
FormatShowsCompression_Always(checked) == TRUE

\* compression_section after toggle_format.
FormatShowsCompression(checked) == checked = "WebP"

\* toggle_format, with `checked` the text of the checked format button.  A
\* click on the other radio button emits toggled on both buttons, so the
\* handler runs twice with the same checked button; the second run repeats
\* the assignments of the first.  The checked compression button is not read.
toggle_format(checked) ==
    /\ quality_frame' = FormatShowsQuality(checked)
    /\ compression_section' = FormatShowsCompression(checked)
    /\ output_entry' = DefaultName(checked)

\* The user clicks the format radio button that is not checked.
ToggleFormat ==
    /\ ~crashed
    /\ \E checked \in {"WebP", "APNG"} :
          /\ checked # format
          /\ format' = checked
          /\ toggle_format(checked)
    /\ edited' = FALSE
    /\ UNCHANGED <<input_folder, compression, delay_entry, quality_entry, toast, worker>>

\* quality_frame after toggle_compression.
CompressionShowsQuality(checked) == checked = "Lossy Mode"

\* toggle_compression, with `checked` the text of the checked button.
toggle_compression(checked) ==
    quality_frame' = CompressionShowsQuality(checked)

\* The user clicks the compression radio button that is not checked; the
\* buttons can be clicked only while compression_section is shown.
ToggleCompression ==
    /\ ~crashed
    /\ compression_section
    /\ \E checked \in {"Lossy Mode", "Lossless Mode"} :
          /\ checked # compression
          /\ compression' = checked
          /\ toggle_compression(checked)
    /\ UNCHANGED <<input_folder, format, compression_section, entries, toast, worker,
                   edited>>

(* ------------------------------------------------------------------ *)
(* Line edits                                                          *)
(* ------------------------------------------------------------------ *)

EditOutput ==
    /\ ~crashed
    /\ \E text \in OutputTexts : output_entry' = text
    /\ edited' = TRUE
    /\ UNCHANGED <<input_folder, widgets, delay_entry, quality_entry, toast, worker>>

EditDelay ==
    /\ ~crashed
    /\ \E text \in DelayTexts : delay_entry' = text
    /\ UNCHANGED <<input_folder, widgets, output_entry, quality_entry, toast, worker,
                   edited>>

\* quality_entry lies inside quality_frame: it can be typed into while shown.
EditQuality ==
    /\ ~crashed
    /\ quality_frame
    /\ \E text \in QualityTexts : quality_entry' = text
    /\ UNCHANGED <<input_folder, widgets, output_entry, delay_entry, toast, worker,
                   edited>>

(* ------------------------------------------------------------------ *)
(* convert_images                                                      *)
(* ------------------------------------------------------------------ *)

\* "webp" if the checked format button is "WebP" else "apng"
FormatType(checked) == IF checked = "WebP" THEN "webp" ELSE "apng"

\* FolderMissing as `self.input_folder == ""` would have it.
FolderMissing_EmptyOnly(folder) == folder = ""

\* `if not self.input_folder`
FolderMissing(folder) == folder = None \/ folder = ""

\* fps = int(text); fps <= 0 raises ValueError; delay = int(1000 / fps)
FrameRateOk(fps) == fps.ok /\ ~(fps.value <= 0)

\* FrameDelay as round(1000 / fps) would have it.
FrameDelay_Rounded(fps) == (1000 + fps \div 2) \div fps

FrameDelay(fps) == 1000 \div fps

\* ExtensionError without the elif branch.
ExtensionError_OnlyWebp(format_type, output_file) ==
    IF format_type = "webp" /\ ~endswith(output_file, ExtWebp)
    THEN "Output file name must end with .webp"
    ELSE ""

\* The pair of endswith tests on the stripped output file name.
ExtensionError(format_type, output_file) ==
    IF format_type = "webp" /\ ~endswith(output_file, ExtWebp)
    THEN "Output file name must end with .webp"
    ELSE IF format_type = "apng" /\ ~endswith(output_file, ExtPng)
    THEN "Output file name must end with .png"
    ELSE ""

\* `lossless = checkedButton().text() == "Lossless Mode"`
Lossless(checked) == checked = "Lossless Mode"

\* QualityOk without `quality > 100`.
QualityOk_NoUpperBound(quality) == quality.ok /\ ~(quality.value < 0)

\* quality = int(text); quality < 0 or quality > 100 raises ValueError
QualityOk(quality) == quality.ok /\ ~(quality.value < 0 \/ quality.value > 100)

LosslessQuality == 100

\* ConversionThread.__init__
ConversionThread(output_file, folder, format_type, delay, quality, lossless) ==
    [output_file |-> output_file, input_folder |-> folder,
     format_type |-> format_type, delay |-> delay, quality |-> quality,
     lossless |-> lossless,
     state |-> "running",        \* running -> emitted -> handled
     success |-> FALSE, error |-> "", call |-> NoCall,
     emitted |-> 0, handled |-> 0]

\* The QThread self.thread refers to has been started and its run() has not
\* returned.
Running(t) == t # 0 /\ threads[t].state = "running"

\* What convert_images does once every check has passed.  Rebinding
\* self.thread drops the reference to the previous ConversionThread; Qt aborts
\* the process when a QThread is destroyed while it is running, so when the
\* previous thread is still running the process either survives (the wrapper
\* is kept alive by the running call) or is aborted.
StartConversion(output_file, format_type, delay, quality, lossless) ==
    /\ Len(threads) < limit
    /\ toast' = show_toast("Converting...", <<>>, 0, "progress")
    /\ \E abort \in IF Running(thread) THEN BOOLEAN ELSE {FALSE} :
          IF abort
          THEN /\ crashed' = TRUE
               /\ UNCHANGED <<thread, threads, limit, files>>
          ELSE /\ threads' = Append(threads,
                       ConversionThread(output_file, input_folder, format_type,
                                        delay, quality, lossless))
               /\ thread' = Len(threads) + 1
               /\ UNCHANGED <<crashed, limit, files>>

ErrorToast(message) ==
    /\ toast' = show_toast(message, <<>>, ToastDuration, "error")
    /\ UNCHANGED worker

\* convert_images: the checks in the order of the code, each ending the
\* handler with its error toast.
convert_images ==
    LET output_file == strip(output_entry)
        format_type == FormatType(format)
        fps == int(delay_entry)
        lossless == Lossless(compression)
        quality == int(quality_entry)
    IN  IF FolderMissing(input_folder)
        THEN ErrorToast("Please select a folder containing PNG files first")
        ELSE IF ~FrameRateOk(fps)
        THEN ErrorToast("Frame rate must be a positive integer")
        ELSE IF ExtensionError(format_type, output_file) # ""
        THEN ErrorToast(ExtensionError(format_type, output_file))
        ELSE IF ~lossless /\ ~QualityOk(quality)
        THEN ErrorToast("Image quality must be an integer between 0 and 100")
        ELSE StartConversion(output_file, format_type, FrameDelay(fps.value),
                             IF lossless THEN LosslessQuality ELSE quality.value,
                             lossless)

\* The user clicks Convert.
ConvertImages ==
    /\ ~crashed
    /\ convert_images
    /\ UNCHANGED <<input_folder, widgets, entries, edited>>

(* ------------------------------------------------------------------ *)
(* ConversionThread.run and the conversion_finished slot                *)
(* ------------------------------------------------------------------ *)

\* The library call of run(), by format_type.
LibraryCall(t, returns) ==
    IF t.format_type = "webp"
    THEN create_webp(t.output_file, t.input_folder, t.delay, t.quality, t.lossless,
                     returns)
    ELSE create_apng(t.output_file, t.input_folder, t.delay, returns)

\* run(): the try block ends with emit(True, ""), the except block with
\* emit(False, str(e)).
run(t, returns) ==
    LET r == LibraryCall(t, returns)
    IN  [t EXCEPT !.state = "emitted",
                  !.success = ~r.raised,
                  !.error = r.error,
                  !.call = r.call,
                  !.emitted = @ + 1]

\* Thread i runs to its end.  When self.thread no longer refers to it, the
\* last reference to the QThread goes away as run() returns, while Qt still
\* counts the thread as running: the process survives or is aborted.
Run ==
    /\ ~crashed
    /\ \E i \in 1..Len(threads) :
          /\ threads[i].state = "running"
          /\ \E returns \in BOOLEAN :
                threads' = [threads EXCEPT ![i] = run(threads[i], returns)]
          /\ \E abort \in IF thread # i THEN BOOLEAN ELSE {FALSE} :
                crashed' = abort
    /\ UNCHANGED <<input_folder, widgets, entries, toast, thread, edited, limit,
                   files>>

\* The toast conversion_finished shows.
FinishedToast(success, error) ==
    IF success
    THEN show_toast("animation saved as", strip(output_entry), ToastDuration, "success")
    ELSE show_toast("Conversion failed: ", <<error>>, ToastDuration, "error")

\* conversion_finished(success, error), delivered by the event loop for the
\* emission of thread i.
ConversionFinished ==
    /\ ~crashed
    /\ \E i \in 1..Len(threads) :
          /\ threads[i].state = "emitted"
          /\ toast' = FinishedToast(threads[i].success, threads[i].error)
          /\ threads' = [threads EXCEPT ![i].state = "handled", ![i].handled = @ + 1]
    /\ UNCHANGED <<input_folder, widgets, entries, thread, crashed, edited, limit,
                   files>>

\* QTimer.singleShot(duration, self.hide) of the toast on display.
ToastTimer ==
    /\ ~crashed
    /\ toast.visible
    /\ toast' = [toast EXCEPT !.visible = FALSE]
    /\ UNCHANGED <<input_folder, widgets, entries, worker, edited>>

(* ------------------------------------------------------------------ *)
(* Specifications                                                      *)
(* ------------------------------------------------------------------ *)

\* Runs in which the user edits the line edits and starts up to MaxConversions
\* conversions; the timers of the toasts are left out.

Next ==
    \/ SelectFolder
    \/ DropEvent
    \/ ClearFolder
    \/ ToggleFormat
    \/ ToggleCompression
    \/ EditOutput
    \/ EditDelay
    \/ EditQuality
    \/ ConvertImages
    \/ Run
    \/ ConversionFinished

Spec == Init /\ [][Next]_vars

\* Runs in which the line edits keep the texts the program gives them, Lossy
\* Mode stays selected and up to MaxThreads conversions are started, with the
\* timers of the toasts.
NextWorker ==
    \/ SelectFolder
    \/ DropEvent
    \/ ClearFolder
    \/ ToggleFormat
    \/ ConvertImages
    \/ Run
    \/ ConversionFinished
    \/ ToastTimer

SpecWorker == InitWorker /\ [][NextWorker]_vars

\* Runs about the file name and the frame rate: Lossy Mode stays selected and
\* the quality entry keeps its text; up to MaxConversions conversions.
NextFile ==
    \/ SelectFolder
    \/ DropEvent
    \/ ClearFolder
    \/ ToggleFormat
    \/ EditOutput
    \/ EditDelay
    \/ ConvertImages
    \/ Run
    \/ ConversionFinished

SpecFile == Init /\ [][NextFile]_vars

\* Runs of the radio buttons and line edits alone.
NextWidgets ==
    \/ ToggleFormat
    \/ ToggleCompression
    \/ EditOutput
    \/ EditDelay
    \/ EditQuality

SpecWidgets == Init /\ [][NextWidgets]_vars

\* Runs about the frames: the folder "frames" holds any listing of up to
\* MaxFiles files; the line edits keep their texts.
NextFrames ==
    \/ SelectFolder
    \/ ToggleFormat
    \/ ToggleCompression
    \/ ConvertImages
    \/ Run
    \/ ConversionFinished

SpecFrames == InitFrames /\ [][NextFrames]_vars

(* ------------------------------------------------------------------ *)
(* Properties                                                          *)
(* ------------------------------------------------------------------ *)

Created == 1..Len(threads)

\* The threads whose run() has not yet emitted conversion_finished.
RunningThreads == {i \in Created : threads[i].state = "running"}

\* C1: at most one ConversionThread is running at any time: no conversion is
\* started while an earlier one has not yet emitted conversion_finished.
C1_AtMostOneRunning == Cardinality(RunningThreads) <= 1

\* C2: every conversion convert_images started ends in exactly one outcome:
\* its thread emits conversion_finished once, (True, "") when the library call
\* returned and (False, message) when it raised, the slot shows the toast of
\* that outcome once, and a conversion that has not ended yet can still end
\* (the process is alive to run the worker and the slot).
C2_EveryConversionEnds ==
    \A i \in Created :
        LET t == threads[i]
        IN  /\ t.emitted = (IF t.state = "running" THEN 0 ELSE 1)
            /\ t.handled = (IF t.state = "handled" THEN 1 ELSE 0)
            /\ t.state # "running" =>
                  /\ t.success <=> t.error = ""
                  /\ t.success <=> t.call # NoCall
            /\ t.state # "handled" => ~crashed

(* The claims about convert_images speak of one click: a step of              *)
(* ConvertImages, the texts and buttons before it, the toast and the threads  *)
(* after it.                                                                  *)

\* A folder is selected.
FolderChosen == input_folder # None

\* The frame rate entry parses as an integer fps > 0.
FpsValid == int(delay_entry).ok /\ int(delay_entry).value > 0

\* The stripped file name ends with the extension of the selected format.
NameOk ==
    endswith(strip(output_entry), IF format = "WebP" THEN ExtWebp ELSE ExtPng)

\* The quality entry parses as an integer q with 0 <= q <= 100.
QualityValid ==
    /\ int(quality_entry).ok
    /\ 0 <= int(quality_entry).value
    /\ int(quality_entry).value <= 100

Lossy == compression = "Lossy Mode"

\* The step created a ConversionThread (it is the last of threads').
Started == Len(threads') = Len(threads) + 1

NoThreadCreated == threads' = threads /\ thread' = thread

ShowsError(message) == toast'.type = "error" /\ toast'.message = message /\ toast'.visible

ExtensionMessage ==
    IF format = "WebP" THEN "Output file name must end with .webp"
    ELSE "Output file name must end with .png"

\* C3, as written: a click with a file name that fails the extension check
\* shows the extension error toast of the selected format and creates no
\* ConversionThread (so nothing is written); a conversion starts only with a
\* file name that passes.
C3_ExtensionCheck_Original ==
    [][ConvertImages =>
          /\ Started => NameOk
          /\ ~NameOk => ShowsError(ExtensionMessage) /\ NoThreadCreated]_vars

\* C3, amended: a click with a failing file name never creates a
\* ConversionThread; it shows the extension error toast when the folder and
\* frame rate checks, which come first, have passed.
C3_ExtensionCheck ==
    [][ConvertImages =>
          /\ Started => NameOk
          /\ ~NameOk => NoThreadCreated
          /\ ~NameOk /\ FolderChosen /\ FpsValid => ShowsError(ExtensionMessage)]_vars

C3_Witness ==
    /\ toast.message = "Output file name must end with .png"
    /\ format = "APNG"
    /\ ~NameOk
    /\ FolderChosen

\* The delay of the thread the step created is floor(1000 / fps).
DelayIsFloor ==
    LET fps == int(delay_entry).value
        delay == threads'[Len(threads')].delay
    IN  delay * fps <= 1000 /\ 1000 < (delay + 1) * fps

\* C4, as written: a conversion starts only with a frame rate entry that
\* parses as an integer fps > 0, and the worker then gets the delay
\* floor(1000 / fps); any other entry gets the frame rate error toast and no
\* ConversionThread.
C4_FrameRateCheck_Original ==
    [][ConvertImages =>
          /\ Started => FpsValid /\ DelayIsFloor
          /\ ~FpsValid => ShowsError("Frame rate must be a positive integer")
                          /\ NoThreadCreated]_vars

\* C4, amended: the frame rate error toast is shown when a folder is selected
\* (the folder check comes first).
C4_FrameRateCheck ==
    [][ConvertImages =>
          /\ Started => FpsValid /\ DelayIsFloor
          /\ ~FpsValid => NoThreadCreated
          /\ ~FpsValid /\ FolderChosen =>
                ShowsError("Frame rate must be a positive integer")]_vars

C4_Witness ==
    /\ \E i \in Created : threads[i].delay = 41
    /\ delay_entry # DelayDefault
    /\ toast.message = "Frame rate must be a positive integer"

QualityMessage == "Image quality must be an integer between 0 and 100"

\* The thread the step created.
NewThread == threads'[Len(threads')]

\* Thread i ended its run() in this step with the library call returned.
Encoded(i) ==
    /\ threads[i].state = "running"
    /\ threads'[i].state = "emitted"
    /\ threads'[i].success

\* C5, as written: in Lossy Mode a conversion starts only with a quality entry
\* that parses as an integer 0..100, the encoder gets that quality, and any
\* other entry gets the quality error toast and no ConversionThread; in
\* Lossless Mode the entry plays no part and the WebP save call gets no
\* quality parameter.
C5_QualityCheck_Original ==
    [][/\ ConvertImages =>
            /\ Lossy /\ Started =>
                  QualityValid /\ NewThread.quality = int(quality_entry).value
            /\ Lossy /\ ~QualityValid => ShowsError(QualityMessage) /\ NoThreadCreated
            /\ ~Lossy => ~ShowsError(QualityMessage)
       /\ \A i \in Created :
            Encoded(i) =>
               IF threads[i].lossless
               THEN "quality" \notin DOMAIN threads'[i].call
               ELSE /\ "quality" \in DOMAIN threads'[i].call
                    /\ threads'[i].call.quality = threads[i].quality]_vars

\* C5, amended: the quality error toast is shown when the folder, frame rate
\* and extension checks, which come first, have passed; the quality reaches
\* the encoder in the WebP save call (the APNG encoder takes none); in
\* Lossless Mode the click starts the conversion whatever the entry holds.
C5_QualityCheck ==
    [][/\ ConvertImages =>
            /\ Lossy /\ Started =>
                  /\ QualityValid
                  /\ NewThread.quality = int(quality_entry).value
                  /\ ~NewThread.lossless
            /\ Lossy /\ ~QualityValid => NoThreadCreated
            /\ Lossy /\ ~QualityValid /\ FolderChosen /\ FpsValid /\ NameOk =>
                  ShowsError(QualityMessage)
            /\ ~Lossy => ~ShowsError(QualityMessage)
            /\ ~Lossy /\ FolderChosen /\ FpsValid /\ NameOk =>
                  (Started /\ NewThread.lossless) \/ crashed'
       /\ \A i \in Created :
            Encoded(i) /\ threads[i].format_type = "webp" =>
               IF threads[i].lossless
               THEN "quality" \notin DOMAIN threads'[i].call
               ELSE /\ "quality" \in DOMAIN threads'[i].call
                    /\ threads'[i].call.quality = threads[i].quality]_vars

\* A lossy WebP conversion handed the typed quality 100 to the save call, and
\* a later click with a bad entry got the quality error toast.
C5_Witness ==
    /\ \E i \in Created :
          /\ threads[i].call.lib = "PIL"
          /\ ~threads[i].lossless
          /\ threads[i].call.quality = 100
    /\ toast.message = QualityMessage
    /\ ~QualityValid

\* C6: a click while input_folder is None shows the folder error toast,
\* creates no ConversionThread and changes neither input_folder nor any
\* setting; input_folder leaves None only by select_folder or dropEvent.
C6_FolderCheck ==
    [][/\ ConvertImages /\ input_folder = None =>
            /\ ShowsError("Please select a folder containing PNG files first")
            /\ NoThreadCreated
            /\ UNCHANGED <<input_folder, widgets, entries, crashed>>
       /\ input_folder = None /\ input_folder' # None => SelectFolder \/ DropEvent]_vars

\* The folder error toast, shown after a conversion and clear_folder.
C6_Witness ==
    /\ toast.message = "Please select a folder containing PNG files first"
    /\ input_folder = None
    /\ Len(threads) = 1

NoPngFiles(i) == glob(threads[i].input_folder) = <<>>

\* C7: on a folder without *.png files create_webp and create_apng raise
\* FileNotFoundError before any encoder call, so the run() of a conversion on
\* such a folder emits (False, message) and its slot shows the failure toast.
C7_EmptyFolderFails ==
    [][\A i \in Created :
          NoPngFiles(i) =>
             /\ threads[i].state = "running" /\ threads'[i].state # "running" =>
                   /\ ~threads'[i].success
                   /\ threads'[i].error = "No PNG files found"
                   /\ threads'[i].call = NoCall
             /\ threads[i].state = "emitted" /\ threads'[i].state = "handled" =>
                   /\ toast'.type = "error"
                   /\ toast'.message = "Conversion failed: "
                   /\ toast'.detail = <<"No PNG files found">>]_vars

C7_Witness ==
    \E i \in Created :
        /\ NoPngFiles(i)
        /\ threads[i].format_type = "apng"
        /\ threads[i].state = "handled"
        /\ toast.message = "Conversion failed: "

\* C8: the compression section is shown if and only if WebP is the selected
\* format.
C8_CompressionSectionFollowsFormat == compression_section <=> format = "WebP"

C8_Witness ==
    /\ format = "APNG"
    /\ compression = "Lossless Mode"
    /\ ~compression_section

\* C9: the quality frame is shown if and only if the selected format is WebP
\* and the selected compression is Lossy Mode.
C9_QualityFrameWhenEffective ==
    quality_frame <=> (format = "WebP" /\ compression = "Lossy Mode")

\* C10: toggle_format leaves the default file name of the selected format in
\* the output entry, and a click made while the user has not typed a name
\* since the last toggle never gets an extension error toast.
C10_ToggleResetsName ==
    [][/\ ToggleFormat =>
            output_entry' =
               (IF format' = "WebP"
                THEN <<"o", "u", "t", "p", "u", "t", ".", "w", "e", "b", "p">>
                ELSE <<"o", "u", "t", "p", "u", "t", ".", "p", "n", "g">>)
       /\ ConvertImages /\ ~edited =>
            toast'.message \notin {"Output file name must end with .webp",
                                   "Output file name must end with .png"}]_vars

\* An APNG conversion started under the name toggle_format wrote.
C10_Witness ==
    /\ ~edited
    /\ format = "APNG"
    /\ \E i \in Created :
          /\ threads[i].format_type = "apng"
          /\ threads[i].output_file = PngDefault

\* Path a comes before path b in lexicographic order: at the first position
\* where they differ a has the smaller character, or a ends there.
Precedes(a, b) ==
    \E k \in 1..Len(b) :
        /\ k <= Len(a) + 1
        /\ \A j \in 1..(k - 1) : a[j] = b[j]
        /\ k = Len(a) + 1 \/ ord(a[k]) < ord(b[k])

\* The frames of an encoder call, in the order the encoder gets them.
Frames(call) ==
    IF call.lib = "PIL" THEN <<call.base>> \o call.append_images ELSE call.frames

\* C11: a conversion whose library call returned, on a folder with n >= 1 PNG
\* files, handed the encoder n frames, each file of the folder once, in
\* ascending lexicographic order; for create_webp the first of them is the
\* base image and the other n - 1 are the appended images.
C11_FramesInOrder ==
    \A i \in Created :
        LET t == threads[i]
            listing == glob(t.input_folder)
            n == Len(listing)
            frames == Frames(t.call)
        IN  t.call # NoCall =>
               /\ n >= 1
               /\ Len(frames) = n
               /\ \A k \in 1..n :
                     Cardinality({j \in 1..Len(frames) : frames[j] = listing[k]}) = 1
               /\ \A j, k \in 1..Len(frames) : j < k => Precedes(frames[j], frames[k])
               /\ t.call.lib = "PIL" =>
                     /\ t.format_type = "webp"
                     /\ \A k \in 1..n : t.call.base = listing[k]
                                          \/ Precedes(t.call.base, listing[k])
                     /\ Len(t.call.append_images) = n - 1
               /\ t.call.lib = "apng" => t.format_type = "apng"

\* A WebP conversion of three files the directory lists as 2.png, 10.png,
\* 1.png has ended with the save call made.
C11_Witness ==
    /\ files = <<Png2, Png10, Png1>>
    /\ \E i \in Created :
          /\ threads[i].call # NoCall
          /\ threads[i].call.lib = "PIL"
          /\ threads[i].state = "handled"

\* The conversion self.thread refers to has not had its conversion_finished
\* handled yet.
InProgress == thread # 0 /\ threads[thread].state # "handled"

ProgressToastShown(t) == t.type = "progress" /\ t.visible

\* C12: the step that starts a ConversionThread shows the progress toast, and
\* while that conversion is in progress a shown progress toast stays shown
\* (no timer hides it) until the step that handles conversion_finished, which
\* puts the success or error toast in its place.
C12_ProgressToastStays ==
    [][/\ Started => ProgressToastShown(toast')
       /\ InProgress /\ ProgressToastShown(toast) =>
             \/ ProgressToastShown(toast')
             \/ /\ threads'[thread].state = "handled"
                /\ toast'.type \in {"success", "error"}
                /\ toast'.visible]_vars

====
